---- MODULE Spec2Model ----
(***************************************************************************)
(* Model of petsc_smart_ptr_base<T> (src/include/petsc_smart_ptr.hpp): a   *)
(* wrapper around a handle to a reference-counted PETSc object.  The state *)
(* is the fields of every wrapper instance (m_ptr, m_ierr), the library's  *)
(* view of every address (allocated or not, its reference count), and a    *)
(* record of the most recent operation and of the library calls it made.   *)
(*                                                                         *)
(* One process, one thread: every constructor, destructor and accessor is  *)
(* one atomic action.  CHKERRQ(m_ierr) is PETSc's "surface the code and    *)
(* return from the enclosing function" macro: the rest of the function is  *)
(* skipped and the process goes on, which is recorded as last.fatal.       *)
(* Every behaviour in which the process stops there instead is a prefix of *)
(* a behaviour of this model.                                              *)
(*                                                                         *)
(* The header is a draft that no compiler accepts as it stands; each       *)
(* statement is modelled by the call it names on the argument it names:    *)
(* (PetscObject)(ptr) in the copy constructor is the object ptr wraps, and *)
(* the slot form of refcount makes the call it names, the increment.       *)
(***************************************************************************)
EXTENDS Integers, Sequences, FiniteSets, TLC

\* ----- bounds ------------------------------------------------------------
MaxW    == 2      \* wrapper instances created in one run
NObj    == 1      \* library objects that exist before the first wrapper
NRaw    == 1      \* blocks malloc can still hand out
MaxRef  == 4      \* the count up to which the slot form of refcount is called

\* ----- program constants ---------------------------------------------------
NULL == 0

NoErr                == "0"
PETSC_ERR_MEM        == "PETSC_ERR_MEM"
PETSC_ERR_SIG        == "PETSC_ERR_SIG"
PETSC_ERR_POINTER    == "PETSC_ERR_POINTER"
PETSC_ERR_WRONGSTATE == "PETSC_ERR_WRONGSTATE"
\* the code an increment / decrement call reports when it fails
LibErr               == "ReferenceError"

\* the codes MatCreate and MatSetType report when they fail
MatCreateErr         == "MatCreateError"
MatSetTypeErr        == "MatSetTypeError"

W    == 1..MaxW
Addr == 1..(NObj + NRaw)

VARIABLES
    m_ptr,      \* [W -> Addr \cup {NULL}]   the handle of each wrapper
    m_ierr,     \* [W -> error code]         the status of each wrapper
    wstate,     \* [W -> "unborn" | "live" | "mat" | "dead"]  scope of each
                \*   instance; "mat": a live petsc_smart_ptr<_p_Mat>
    isCopy,     \* [W -> BOOLEAN]  the instance was copy-constructed
    movedFrom,  \* [W -> BOOLEAN]  the instance was the source of a move
    fromNull,   \* [W -> BOOLEAN]  the instance was constructed from a null handle
    ostate,     \* [Addr -> "unused" | "object" | "raw" | "freed"]
    refct,      \* [Addr -> Int]   the library's reference count
    base,       \* [Addr -> Int]   the count held outside the wrappers
    copy0,      \* [Addr -> <<>> | <<count before the first live copy>>]
    calls,      \* library calls issued by the most recent operation
    last,       \* the most recent operation, its inputs and what it saw
    crashed     \* a use of freed or null memory ended the process

vars == <<m_ptr, m_ierr, wstate, isCopy, movedFrom, fromNull, ostate, refct, base,
          copy0, calls, last, crashed>>

Call(name, a) == <<name, a>>

NoOp == [op |-> "init", w |-> 0, src |-> 0, h |-> NULL, pre |-> 0,
         preOs |-> "unused", preErr |-> NoErr, flag |-> FALSE,
         libOk |-> TRUE, fatal |-> FALSE, out |-> NULL, err |-> NoErr,
         c0 |-> <<>>, moved |-> FALSE]

\* ----- the external library (spec section 6), as the wrapper calls it ----
\* PetscObjectReference(obj): obj->refct++ unless the call reports failure.
PetscObjectReference(rc, h, ret) ==
    IF h = NULL \/ ret # NoErr THEN rc ELSE [rc EXCEPT ![h] = @ + 1]

\* PetscObjectDereference(obj): obj->refct-- unless the call reports failure.
PetscObjectDereference(rc, h, ret) ==
    IF h = NULL \/ ret # NoErr THEN rc ELSE [rc EXCEPT ![h] = @ - 1]

\* PetscObjectGetReference(obj, &cnt): the count, the object untouched.
PetscObjectGetReference(rc, h) == rc[h]

\* PetscFree(p): releases the block and sets p to 0 when it succeeds.
PetscFree(os, h, ok) ==
    IF ok THEN [ptr |-> NULL, os |-> [os EXCEPT ![h] = "freed"]]
          ELSE [ptr |-> h, os |-> os]

\* the count of an object the library has created and handed to its creator
Created == 1

\* what the count field of a block that was never initialised may read as
Garbage == {0, 1}

Init ==
    /\ m_ptr = [w \in W |-> NULL]
    /\ m_ierr = [w \in W |-> NoErr]
    /\ wstate = [w \in W |-> "unborn"]
    /\ isCopy = [w \in W |-> FALSE]
    /\ movedFrom = [w \in W |-> FALSE]
    /\ fromNull = [w \in W |-> FALSE]
    /\ ostate = [a \in Addr |-> IF a <= NObj THEN "object" ELSE "unused"]
    /\ refct = [a \in Addr |-> IF a <= NObj THEN Created ELSE 0]
    /\ base = refct
    /\ copy0 = [a \in Addr |-> <<>>]
    /\ calls = <<>>
    /\ last = NoOp
    /\ crashed = FALSE

\* the slot of the next instance to be constructed
NextSlot(w) ==
    /\ wstate[w] = "unborn"
    /\ \A v \in W : v < w => wstate[v] # "unborn"

Live == {w \in W : wstate[w] = "live"}

\* live instances that hold handle h, and the copies among them
Holders(h) == {w \in Live : m_ptr[w] = h}
Copies(h) == {w \in Holders(h) : isCopy[w]}

\* a call into the library on a block that was already freed is undefined:
\* it either acts on the stale memory or ends the process
Dangling(h) == h # NULL /\ ostate[h] = "freed"

Outcomes(h) == IF Dangling(h) THEN {"stale", "crash"} ELSE {"stale"}

Crash(rec) ==
    /\ crashed' = TRUE
    /\ last' = rec
    /\ calls' = <<>>
    /\ UNCHANGED <<m_ptr, m_ierr, wstate, isCopy, movedFrom, fromNull, ostate,
                   refct, base, copy0>>

\* what an operation concerning handle h records about the state it started
\* in; (out, err): the handle the operation returned or left in the instance
\* it ran the destructor on, and that instance's status; moved: the instance
\* whose scope ended had been moved from
Rec(op, w, src, h, preErr, flag, libOk, fatal, out, err, c0) ==
    [op |-> op, w |-> w, src |-> src, h |-> h,
     pre |-> IF h = NULL THEN 0 ELSE refct[h],
     preOs |-> IF h = NULL THEN "unused" ELSE ostate[h],
     preErr |-> preErr, flag |-> flag, libOk |-> libOk,
     fatal |-> fatal, out |-> out, err |-> err, c0 |-> c0,
     moved |-> op = "destroy" /\ movedFrom[w]]

Rets == {NoErr, LibErr}

LowestUnused == CHOOSE a \in Addr :
    /\ ostate[a] = "unused"
    /\ \A b \in Addr : ostate[b] = "unused" => a <= b

\* handles a caller can pass as a raw pointer: a library object it holds, or
\* what get() of a live wrapper returns
Handles == {a \in Addr : ostate[a] = "object"}
           \cup {m_ptr[v] : v \in {u \in Live : m_ptr[u] # NULL}}

Born(w, copied, h) ==
    /\ wstate' = [wstate EXCEPT ![w] = "live"]
    /\ isCopy' = [isCopy EXCEPT ![w] = copied]
    /\ fromNull' = [fromNull EXCEPT ![w] = (h = NULL)]

NoEpoch == <<>>
Spoiled == <<0, 0>>

\* an operation other than making or destroying a copy touches handle h
Spoil(h) == IF h # NULL /\ copy0[h] # <<>>
            THEN [copy0 EXCEPT ![h] = Spoiled] ELSE copy0

\* DefaultCtor without the test of malloc's result
DefaultCtor_NoMemCheck(w, ok, g) ==
    /\ ~crashed
    /\ NextSlot(w)
    /\ IF ok THEN \E a \in Addr : ostate[a] = "unused" ELSE g = 0
    /\ LET a == IF ok THEN LowestUnused ELSE NULL
       IN /\ m_ptr' = [m_ptr EXCEPT ![w] = a]
          /\ m_ierr' = [m_ierr EXCEPT ![w] = NoErr]
          /\ ostate' = IF ok THEN [ostate EXCEPT ![a] = "raw"] ELSE ostate
          /\ refct' = IF ok THEN [refct EXCEPT ![a] = g] ELSE refct
          /\ base' = IF ok THEN [base EXCEPT ![a] = g] ELSE base
          /\ calls' = <<Call("malloc", a)>>
          /\ last' = Rec("default", w, 0, NULL, NoErr, FALSE, ok, FALSE, a, NoErr,
                         NoEpoch)
    /\ wstate' = [wstate EXCEPT ![w] = "live"]
    /\ UNCHANGED <<isCopy, movedFrom, fromNull, copy0, crashed>>

\* petsc_smart_ptr_base(): m_ptr(malloc(sizeof(T))), m_ierr(0); the block is
\* not initialised, so the count the library reads in it is arbitrary (g)
DefaultCtor(w, ok, g) ==
    /\ ~crashed
    /\ NextSlot(w)
    /\ IF ok THEN \E a \in Addr : ostate[a] = "unused" ELSE g = 0
    /\ LET a == IF ok THEN LowestUnused ELSE NULL
           e == IF a = NULL THEN PETSC_ERR_MEM ELSE NoErr
       IN /\ m_ptr' = [m_ptr EXCEPT ![w] = a]
          /\ m_ierr' = [m_ierr EXCEPT ![w] = e]
          /\ ostate' = IF ok THEN [ostate EXCEPT ![a] = "raw"] ELSE ostate
          /\ refct' = IF ok THEN [refct EXCEPT ![a] = g] ELSE refct
          /\ base' = IF ok THEN [base EXCEPT ![a] = g] ELSE base
          /\ calls' = <<Call("malloc", a)>>
          /\ last' = Rec("default", w, 0, NULL, NoErr, FALSE, ok, e # NoErr, a, e,
                         NoEpoch)
    /\ wstate' = [wstate EXCEPT ![w] = "live"]
    /\ UNCHANGED <<isCopy, movedFrom, fromNull, copy0, crashed>>

\* Share with the status of the increment stored and the count left alone
Share_NoIncrement(op, w, h, ret, ub, c0) ==
    LET rec == Rec(op, w, 0, h, NoErr, FALSE, ret = NoErr, ret # NoErr, h, ret,
                   NoEpoch)
    IN IF ub = "crash"
       THEN Crash(rec)
       ELSE /\ m_ptr' = [m_ptr EXCEPT ![w] = h]
            /\ m_ierr' = [m_ierr EXCEPT ![w] = ret]
            /\ refct' = refct
            /\ calls' = <<Call("PetscObjectReference", h)>>
            /\ last' = rec
            /\ copy0' = c0
            /\ Born(w, op = "copy", h)
            /\ UNCHANGED <<movedFrom, ostate, base, crashed>>

\* the body shared by the constructors that take a share of handle h:
\* m_ierr = PetscObjectReference(...); CHKERRQ(m_ierr);
Share(op, w, h, ret, ub, c0) ==
    LET rec == Rec(op, w, 0, h, NoErr, FALSE, ret = NoErr, ret # NoErr, h, ret,
                   NoEpoch)
    IN IF ub = "crash"
       THEN Crash(rec)
       ELSE /\ m_ptr' = [m_ptr EXCEPT ![w] = h]
            /\ m_ierr' = [m_ierr EXCEPT ![w] = ret]
            /\ refct' = PetscObjectReference(refct, h, ret)
            /\ calls' = <<Call("PetscObjectReference", h)>>
            /\ last' = rec
            /\ copy0' = c0
            /\ Born(w, op = "copy", h)
            /\ UNCHANGED <<movedFrom, ostate, base, crashed>>

\* RefCtor as the earlier draft of the header had it: m_ierr = 0, no call
RefCtor_Draft(w, h, ret) ==
    /\ ~crashed
    /\ NextSlot(w)
    /\ ostate[h] = "object"
    /\ ret = NoErr
    /\ m_ptr' = [m_ptr EXCEPT ![w] = h]
    /\ m_ierr' = [m_ierr EXCEPT ![w] = NoErr]
    /\ calls' = <<>>
    /\ last' = Rec("ref", w, 0, h, NoErr, FALSE, TRUE, FALSE, h, NoErr, NoEpoch)
    /\ copy0' = Spoil(h)
    /\ Born(w, FALSE, h)
    /\ UNCHANGED <<movedFrom, ostate, refct, base, crashed>>

\* petsc_smart_ptr_base(T& ptr): m_ptr(std::addressof(ptr)), then the
\* increment on m_ptr
RefCtor(w, h, ret) ==
    /\ ~crashed
    /\ NextSlot(w)
    /\ ostate[h] = "object"
    /\ Share("ref", w, h, ret, "stale", Spoil(h))

\* petsc_smart_ptr_base(T* ptr): m_ptr(ptr), then the increment on m_ptr
PtrCtor(w, h, ret, ub) ==
    /\ ~crashed
    /\ NextSlot(w)
    /\ h \in Handles
    /\ ub \in Outcomes(h)
    /\ Share("ptr", w, h, ret, ub, Spoil(h))

\* petsc_smart_ptr_base(petsc_smart_ptr_base& ptr): m_ptr(ptr.m_ptr),
\* m_ierr(ptr.m_ierr), then the increment on the object ptr wraps
CopyCtor(w, s, ret, ub) ==
    /\ ~crashed
    /\ NextSlot(w)
    /\ wstate[s] = "live"
    /\ ub \in Outcomes(m_ptr[s])
    /\ LET h == m_ptr[s]
           c0 == IF h = NULL THEN copy0
                 ELSE IF ret # NoErr \/ ostate[h] # "object" THEN [copy0 EXCEPT ![h] = Spoiled]
                 ELSE IF Copies(h) = {} THEN [copy0 EXCEPT ![h] = <<refct[h]>>]
                 ELSE copy0
       IN Share("copy", w, h, ret, ub, c0)

\* PetscError refcount(PetscInt* cnt): the call it makes is
\* PetscObjectReference, and it returns 0 whatever the count is
refcount_slot(rc, h, ret) ==
    [ret |-> NoErr, rc |-> PetscObjectReference(rc, h, ret)]

\* PetscInt refcount(): PetscObjectGetReference((PetscObject)(m_ptr), &refcnt)
refcount_value(rc, h) == PetscObjectGetReference(rc, h)

\* Dtor without the CHKERRQ that follows the probe
Dtor_NoFatalCheck(p, e, rc, os, i) ==
    IF p = NULL
    THEN [ptr |-> p, ierr |-> e, rc |-> rc, os |-> os, calls |-> <<>>,
          fatal |-> FALSE, touched |-> FALSE]
    ELSE
      LET rc1 == PetscObjectDereference(rc, p, i.dret)
          q   == refcount_slot(rc1, p, i.rret)
          f   == PetscFree(os, p, i.freeOk)
          e4  == IF f.ptr # NULL THEN PETSC_ERR_WRONGSTATE ELSE q.ret
      IN [ptr |-> f.ptr, ierr |-> e4, rc |-> q.rc, os |-> f.os,
          calls |-> <<Call("MPI_Iprobe", NULL),
                      Call("PetscObjectDereference", p),
                      Call("PetscObjectReference", p),
                      Call("PetscFree", p)>>,
          fatal |-> e4 # NoErr, touched |-> TRUE]

\* Dtor with the CHKERRQ after the probe looking at the probe's flag only
Dtor_StatusIgnored(p, e, rc, os, i) ==
    IF p = NULL
    THEN [ptr |-> p, ierr |-> e, rc |-> rc, os |-> os, calls |-> <<>>,
          fatal |-> FALSE, touched |-> FALSE]
    ELSE
      LET probe == <<Call("MPI_Iprobe", NULL)>>
          e1 == IF i.flag THEN PETSC_ERR_SIG ELSE NoErr
      IN IF e1 # NoErr
         THEN [ptr |-> p, ierr |-> e1, rc |-> rc, os |-> os, calls |-> probe,
               fatal |-> TRUE, touched |-> FALSE]
         ELSE
           LET rc1 == PetscObjectDereference(rc, p, i.dret)
               q   == refcount_slot(rc1, p, i.rret)
               c2  == probe \o <<Call("PetscObjectDereference", p),
                                 Call("PetscObjectReference", p)>>
           IN IF q.ret = NoErr
              THEN LET f  == PetscFree(os, p, i.freeOk)
                       e4 == IF f.ptr # NULL THEN PETSC_ERR_WRONGSTATE ELSE q.ret
                   IN [ptr |-> f.ptr, ierr |-> e4, rc |-> q.rc, os |-> f.os,
                       calls |-> c2 \o <<Call("PetscFree", p)>>,
                       fatal |-> e4 # NoErr, touched |-> TRUE]
              ELSE [ptr |-> p, ierr |-> NoErr,
                    rc |-> PetscObjectReference(q.rc, p, NoErr), os |-> os,
                    calls |-> c2 \o <<Call("PetscObjectReference", p)>>,
                    fatal |-> FALSE, touched |-> TRUE]

\* Dtor without the test of m_ptr around its body
Dtor_NoNullGuard(p, e, rc, os, i) ==
    IF p = NULL
    THEN [ptr |-> p, ierr |-> e, rc |-> rc, os |-> os,
          calls |-> <<Call("MPI_Iprobe", NULL)>>,
          fatal |-> e # NoErr, touched |-> FALSE]
    ELSE
      LET probe == <<Call("MPI_Iprobe", NULL)>>
          e1 == IF i.flag THEN PETSC_ERR_SIG ELSE e
      IN IF e1 # NoErr
         THEN [ptr |-> p, ierr |-> e1, rc |-> rc, os |-> os, calls |-> probe,
               fatal |-> TRUE, touched |-> FALSE]
         ELSE
           LET rc1 == PetscObjectDereference(rc, p, i.dret)
               q   == refcount_slot(rc1, p, i.rret)
               c2  == probe \o <<Call("PetscObjectDereference", p),
                                 Call("PetscObjectReference", p)>>
           IN IF q.ret = NoErr
              THEN LET f  == PetscFree(os, p, i.freeOk)
                       e4 == IF f.ptr # NULL THEN PETSC_ERR_WRONGSTATE ELSE q.ret
                   IN [ptr |-> f.ptr, ierr |-> e4, rc |-> q.rc, os |-> f.os,
                       calls |-> c2 \o <<Call("PetscFree", p)>>,
                       fatal |-> e4 # NoErr, touched |-> TRUE]
              ELSE [ptr |-> p, ierr |-> NoErr,
                    rc |-> PetscObjectReference(q.rc, p, NoErr), os |-> os,
                    calls |-> c2 \o <<Call("PetscObjectReference", p)>>,
                    fatal |-> FALSE, touched |-> TRUE]

\* ~petsc_smart_ptr_base() run on an instance with handle p and status e, the
\* library holding counts rc and blocks os.  i.flag is what MPI_Iprobe reports,
\* i.dret / i.rret what the decrement and the call inside refcount(&flag)
\* report, i.freeOk whether PetscFree succeeds.  The result is the instance's
\* fields and the library's state afterwards, the calls issued, and whether a
\* CHKERRQ fired; touched says that the library was called on the handle.
Dtor(p, e, rc, os, i) ==
    IF p = NULL
    THEN [ptr |-> p, ierr |-> e, rc |-> rc, os |-> os, calls |-> <<>>,
          fatal |-> FALSE, touched |-> FALSE]
    ELSE
      LET probe == <<Call("MPI_Iprobe", NULL)>>
          e1 == IF i.flag THEN PETSC_ERR_SIG ELSE e
      IN IF e1 # NoErr
         THEN [ptr |-> p, ierr |-> e1, rc |-> rc, os |-> os, calls |-> probe,
               fatal |-> TRUE, touched |-> FALSE]
         ELSE
           LET rc1 == PetscObjectDereference(rc, p, i.dret)
               q   == refcount_slot(rc1, p, i.rret)
               c2  == probe \o <<Call("PetscObjectDereference", p),
                                 Call("PetscObjectReference", p)>>
           IN IF q.ret = NoErr
              THEN LET f  == PetscFree(os, p, i.freeOk)
                       e4 == IF f.ptr # NULL THEN PETSC_ERR_WRONGSTATE ELSE q.ret
                   IN [ptr |-> f.ptr, ierr |-> e4, rc |-> q.rc, os |-> f.os,
                       calls |-> c2 \o <<Call("PetscFree", p)>>,
                       fatal |-> e4 # NoErr, touched |-> TRUE]
              ELSE [ptr |-> p, ierr |-> NoErr,
                    rc |-> PetscObjectReference(q.rc, p, NoErr), os |-> os,
                    calls |-> c2 \o <<Call("PetscObjectReference", p)>>,
                    fatal |-> FALSE, touched |-> TRUE]

DtorInputs == [flag : BOOLEAN, dret : Rets, rret : Rets, freeOk : BOOLEAN]

AllOk(i) == i.dret = NoErr /\ i.rret = NoErr /\ i.freeOk

\* inputs that the destructor of an instance in this state never reads are
\* pinned, so that one behaviour of the code is one transition
Relevant(p, e, i) ==
    /\ (p = NULL => ~i.flag)
    /\ (p = NULL \/ i.flag \/ e # NoErr) => AllOk(i)

\* the destructor at the end of the instance's scope; the instance's storage
\* is gone afterwards, the fields it ended with are kept in last.out, last.err
Destroy(w, i, ub) ==
    /\ ~crashed
    /\ wstate[w] = "live"
    /\ ub \in Outcomes(m_ptr[w])
    /\ LET p == m_ptr[w]
           r == Dtor(p, m_ierr[w], refct, ostate, i)
           clean == /\ isCopy[w] /\ ~r.fatal /\ AllOk(i)
                    /\ Len(copy0[p]) = 1 /\ ostate[p] = "object"
           ends == isCopy[w] /\ Copies(p) = {w}
           rec == Rec("destroy", w, 0, p, m_ierr[w], i.flag, AllOk(i), r.fatal,
                      r.ptr, r.ierr,
                      IF p # NULL /\ ends /\ clean THEN copy0[p] ELSE NoEpoch)
       IN /\ Relevant(p, m_ierr[w], i)
          /\ (ub = "crash" => r.touched)
          /\ IF ub = "crash"
             THEN Crash(rec)
             ELSE /\ m_ptr' = [m_ptr EXCEPT ![w] = NULL]
                  /\ m_ierr' = [m_ierr EXCEPT ![w] = NoErr]
                  /\ wstate' = [wstate EXCEPT ![w] = "dead"]
                  /\ isCopy' = [isCopy EXCEPT ![w] = FALSE]
                  /\ movedFrom' = [movedFrom EXCEPT ![w] = FALSE]
                  /\ fromNull' = [fromNull EXCEPT ![w] = FALSE]
                  /\ refct' = r.rc
                  /\ ostate' = r.os
                  /\ copy0' = IF p = NULL THEN copy0
                              ELSE IF ends THEN [copy0 EXCEPT ![p] = NoEpoch]
                              ELSE IF clean THEN copy0
                              ELSE Spoil(p)
                  /\ calls' = r.calls
                  /\ last' = rec
                  /\ UNCHANGED <<base, crashed>>

\* petsc_smart_ptr_base(petsc_smart_ptr_base&& ptr): m_ptr(ptr.m_ptr),
\* m_ierr(ptr.m_ierr), then ptr.~petsc_smart_ptr_base() on the source, whose
\* scope has not ended.  The source's lifetime ends with that call and its
\* destructor runs again at the end of its scope, which is undefined: the
\* fields the source is later found with are those the destructor stored
\* (dse = "kept"), or, the stores to an object whose lifetime has ended being
\* dead, those it had before the call (dse = "elided").
MoveCtor(w, s, i, ub, dse) ==
    /\ ~crashed
    /\ NextSlot(w)
    /\ wstate[s] = "live"
    /\ ub \in Outcomes(m_ptr[s])
    /\ LET p == m_ptr[s]
           r == Dtor(p, m_ierr[s], refct, ostate, i)
           sp == IF dse = "kept" THEN r.ptr ELSE p
           se == IF dse = "kept" THEN r.ierr ELSE m_ierr[s]
           rec == Rec("move", w, s, p, m_ierr[s], i.flag, AllOk(i), r.fatal,
                      r.ptr, r.ierr, NoEpoch)
       IN /\ Relevant(p, m_ierr[s], i)
          /\ (ub = "crash" => r.touched /\ dse = "kept")
          /\ (dse = "elided" => (r.ptr # p \/ r.ierr # m_ierr[s]))
          /\ IF ub = "crash"
             THEN Crash(rec)
             ELSE /\ m_ptr' = [m_ptr EXCEPT ![w] = p, ![s] = sp]
                  /\ m_ierr' = [m_ierr EXCEPT ![w] = m_ierr[s], ![s] = se]
                  /\ movedFrom' = [movedFrom EXCEPT ![s] = TRUE]
                  /\ refct' = r.rc
                  /\ ostate' = r.os
                  /\ copy0' = Spoil(p)
                  /\ calls' = r.calls
                  /\ last' = rec
                  /\ Born(w, FALSE, p)
                  /\ UNCHANGED <<base, crashed>>

\* T* operator->(): a null handle is recorded in the status, the handle is
\* returned either way
Arrow(w) ==
    /\ ~crashed
    /\ wstate[w] = "live"
    /\ m_ierr' = [m_ierr EXCEPT ![w] = IF m_ptr[w] = NULL THEN PETSC_ERR_POINTER ELSE @]
    /\ calls' = <<>>
    /\ last' = Rec("arrow", w, 0, m_ptr[w], m_ierr[w], FALSE, TRUE, FALSE,
                   m_ptr[w], m_ierr'[w], NoEpoch)
    /\ UNCHANGED <<m_ptr, wstate, isCopy, movedFrom, fromNull, ostate, refct,
                   base, copy0, crashed>>

\* T& operator*(): returns *m_ptr with no test of m_ptr; on a null handle the
\* dereference is undefined: the process ends, or a null reference comes back
Star(w, ub) ==
    /\ ~crashed
    /\ wstate[w] = "live"
    /\ (ub = "crash" => m_ptr[w] = NULL)
    /\ LET rec == Rec("star", w, 0, m_ptr[w], m_ierr[w], FALSE, TRUE, FALSE,
                      m_ptr[w], m_ierr[w], NoEpoch)
       IN IF ub = "crash"
          THEN Crash(rec)
          ELSE /\ calls' = <<>>
               /\ last' = rec
               /\ UNCHANGED <<m_ptr, m_ierr, wstate, isCopy, movedFrom, fromNull,
                              ostate, refct, base, copy0, crashed>>

\* PetscInt refcount(): the count PetscObjectGetReference writes into the
\* local refcnt is returned; with a null handle the library writes nothing
\* and what is returned is the uninitialised local (g)
RefcountValue(w, g, ub) ==
    /\ ~crashed
    /\ wstate[w] = "live"
    /\ ub \in Outcomes(m_ptr[w])
    /\ (m_ptr[w] # NULL => g = 0)
    /\ LET h == m_ptr[w]
           rec == Rec("refcount", w, 0, h, m_ierr[w], FALSE, TRUE, FALSE,
                      IF h = NULL THEN g ELSE refcount_value(refct, h),
                      m_ierr[w], NoEpoch)
       IN IF ub = "crash"
          THEN Crash(rec)
          ELSE /\ calls' = <<Call("PetscObjectGetReference", h)>>
               /\ last' = rec
               /\ UNCHANGED <<m_ptr, m_ierr, wstate, isCopy, movedFrom, fromNull,
                              ostate, refct, base, copy0, crashed>>

\* PetscError refcount(PetscInt* cnt): the caller's slot holds cnt0 before
\* the call; the call made is PetscObjectReference, nothing writes the slot,
\* and 0 is returned
RefcountSlot(w, cnt0, ret, ub) ==
    /\ ~crashed
    /\ wstate[w] = "live"
    /\ ub \in Outcomes(m_ptr[w])
    /\ (m_ptr[w] = NULL => ret = NoErr)
    /\ (m_ptr[w] # NULL => refct[m_ptr[w]] < MaxRef)
    /\ LET h == m_ptr[w]
           q == refcount_slot(refct, h, ret)
           rec == Rec("refcount_slot", w, 0, h, m_ierr[w], FALSE, ret = NoErr,
                      FALSE, cnt0, q.ret, NoEpoch)
       IN IF ub = "crash"
          THEN Crash(rec)
          ELSE /\ refct' = q.rc
               /\ copy0' = Spoil(h)
               /\ calls' = <<Call("PetscObjectReference", h)>>
               /\ last' = rec
               /\ UNCHANGED <<m_ptr, m_ierr, wstate, isCopy, movedFrom, fromNull,
                              ostate, base, crashed>>

\* ----- petsc_smart_ptr<_p_Mat>, the matrix specialization ----------------
\* MatCreate(comm, &A): *A is nulled, then a new matrix with one reference is
\* made and stored in *A; when the call fails *A stays null
MatCreate(rc, os, ok) ==
    IF ok
    THEN [ptr |-> LowestUnused,
          rc |-> [rc EXCEPT ![LowestUnused] = Created],
          os |-> [os EXCEPT ![LowestUnused] = "object"]]
    ELSE [ptr |-> NULL, rc |-> rc, os |-> os]

\* MatDestroy(&A): nothing for a null *A; otherwise one reference is given
\* up, the matrix is destroyed when that was the last one, and *A is nulled;
\* a failing call leaves everything as it was
MatDestroy(rc, os, h, ok) ==
    IF h = NULL \/ ~ok
    THEN [ptr |-> h, rc |-> rc, os |-> os]
    ELSE [ptr |-> NULL,
          rc |-> [rc EXCEPT ![h] = @ - 1],
          os |-> IF rc[h] - 1 > 0 THEN os ELSE [os EXCEPT ![h] = "freed"]]

\* matrices the caller has created itself and can pass as the Mat argument
MatArgs == {a \in Addr : ostate[a] = "object" /\ base[a] = Created /\ a <= NObj}

\* what `m_ierr = set_type(mat_t)` stores, set_type returning nothing: the
\* status is left as it was, or it is the status of the call set_type makes
Readings == {"kept", "call"}

\* the status query
request_ierr(w) == m_ierr[w]

\* MatCtor without its MatCreate call
MatCtor_NoCreate(w, h, ret, cok, typed, sret, rd) ==
    /\ ~crashed
    /\ NextSlot(w)
    /\ h \in MatArgs
    /\ (~typed => sret = NoErr /\ rd = "kept")
    /\ LET e == IF typed /\ rd = "call" THEN sret ELSE ret
       IN /\ m_ptr' = [m_ptr EXCEPT ![w] = h]
          /\ m_ierr' = [m_ierr EXCEPT ![w] = e]
          /\ refct' = PetscObjectReference(refct, h, ret)
          /\ calls' = <<Call("PetscObjectReference", h)>>
                       \o (IF typed THEN <<Call("MatSetType", h)>> ELSE <<>>)
          /\ last' = Rec(IF typed THEN "mat_typed" ELSE "mat", w, 0, h, NoErr,
                         FALSE, ret = NoErr /\ cok /\ sret = NoErr, e # NoErr,
                         h, sret, NoEpoch)
    /\ wstate' = [wstate EXCEPT ![w] = "mat"]
    /\ UNCHANGED <<ostate, base, isCopy, movedFrom, fromNull, copy0, crashed>>

\* petsc_smart_ptr(Mat ptr, MPI_Comm comm) and, with typed,
\* petsc_smart_ptr(Mat ptr, MPI_Comm comm, const std::string& mat_t):
\* the base constructor from a pointer (m_ptr = ptr, m_ierr = the status of
\* the increment on ptr), then MatCreate(comm, &m_ptr), whose status is not
\* stored, then for the typed form m_ierr = set_type(mat_t), then
\* CHKERRQ(m_ierr).  last.err is the first status other than OK that the
\* create and the set-type call report.
MatCtor(w, h, ret, cok, typed, sret, rd) ==
    /\ ~crashed
    /\ NextSlot(w)
    /\ h \in MatArgs
    /\ (cok => \E a \in Addr : ostate[a] = "unused")
    /\ (~typed => sret = NoErr /\ rd = "kept")
    /\ (typed /\ ~cok => sret = MatSetTypeErr)
    /\ LET c == MatCreate(PetscObjectReference(refct, h, ret), ostate, cok)
           e == IF typed /\ rd = "call" THEN sret ELSE ret
           reported == IF ~cok THEN MatCreateErr ELSE sret
       IN /\ m_ptr' = [m_ptr EXCEPT ![w] = c.ptr]
          /\ m_ierr' = [m_ierr EXCEPT ![w] = e]
          /\ refct' = c.rc
          /\ ostate' = c.os
          /\ base' = IF cok THEN [base EXCEPT ![c.ptr] = 0] ELSE base
          /\ calls' = <<Call("PetscObjectReference", h), Call("MatCreate", c.ptr)>>
                       \o (IF typed THEN <<Call("MatSetType", c.ptr)>> ELSE <<>>)
          /\ last' = Rec(IF typed THEN "mat_typed" ELSE "mat", w, 0, h, NoErr,
                         FALSE, ret = NoErr /\ cok /\ sret = NoErr, e # NoErr,
                         c.ptr, reported, NoEpoch)
    /\ wstate' = [wstate EXCEPT ![w] = "mat"]
    /\ UNCHANGED <<isCopy, movedFrom, fromNull, copy0, crashed>>

\* void set_type(const std::string& mat_t): MatSetType(m_ptr, mat_t), whose
\* status is not stored; last.err is the status the call reports
SetType(w, sret) ==
    /\ ~crashed
    /\ wstate[w] = "mat"
    /\ (m_ptr[w] = NULL => sret = MatSetTypeErr)
    /\ calls' = <<Call("MatSetType", m_ptr[w])>>
    /\ last' = Rec("set_type", w, 0, m_ptr[w], m_ierr[w], FALSE, sret = NoErr,
                   FALSE, m_ptr[w], sret, NoEpoch)
    /\ UNCHANGED <<m_ptr, m_ierr, wstate, isCopy, movedFrom, fromNull, ostate,
                   refct, base, copy0, crashed>>

\* ~petsc_smart_ptr<_p_Mat>(): MatDestroy(&m_ptr), then the base destructor
\* on what MatDestroy left
MatDtor(w, dok, i) ==
    /\ ~crashed
    /\ wstate[w] = "mat"
    /\ (m_ptr[w] = NULL => dok)
    /\ LET p == m_ptr[w]
           d == MatDestroy(refct, ostate, p, dok)
           r == Dtor(d.ptr, m_ierr[w], d.rc, d.os, i)
       IN /\ Relevant(d.ptr, m_ierr[w], i)
          /\ m_ptr' = [m_ptr EXCEPT ![w] = NULL]
          /\ m_ierr' = [m_ierr EXCEPT ![w] = NoErr]
          /\ wstate' = [wstate EXCEPT ![w] = "dead"]
          /\ refct' = r.rc
          /\ ostate' = r.os
          /\ calls' = <<Call("MatDestroy", p)>> \o r.calls
          /\ last' = Rec("mat_destroy", w, 0, p, m_ierr[w], i.flag,
                         dok /\ AllOk(i), r.fatal, r.ptr, r.ierr, NoEpoch)
          /\ UNCHANGED <<isCopy, movedFrom, fromNull, base, copy0, crashed>>

UB == {"stale", "crash"}
Stores == {"kept", "elided"}

\* the instance a constructor can make next
Slots == {w \in W : NextSlot(w)}

Construct ==
    \/ \E w \in Slots, h \in Addr, ret \in Rets, ub \in UB : PtrCtor(w, h, ret, ub)
    \/ \E w \in Slots, h \in Addr, ret \in Rets : RefCtor(w, h, ret)
    \/ \E w \in Slots, s \in Live, ret \in Rets, ub \in UB : CopyCtor(w, s, ret, ub)
    \/ \E w \in Slots, s \in Live, i \in DtorInputs, ub \in UB, dse \in Stores :
           MoveCtor(w, s, i, ub, dse)
    \/ \E w \in Slots, ok \in BOOLEAN, g \in Garbage : DefaultCtor(w, ok, g)

Destruct == \E w \in Live, i \in DtorInputs, ub \in UB : Destroy(w, i, ub)

Access ==
    \/ \E w \in Live : Arrow(w)
    \/ \E w \in Live, ub \in UB : Star(w, ub)

\* constructions and destructions
Next == Construct \/ Destruct

Spec == Init /\ [][Next]_vars

\* constructions, destructions and the pointer-like accessors
NextAccess == Construct \/ Destruct \/ Access

SpecAccess == Init /\ [][NextAccess]_vars

\* every library call succeeds and the probe never reports a message; the
\* accessors call nothing
OkInputs == {i \in DtorInputs : ~i.flag /\ AllOk(i)}

NextOk ==
    \/ \E w \in Slots, h \in Addr, ub \in UB : PtrCtor(w, h, NoErr, ub)
    \/ \E w \in Slots, h \in Addr : RefCtor(w, h, NoErr)
    \/ \E w \in Slots, g \in Garbage : DefaultCtor(w, TRUE, g)
    \/ \E w \in Slots, s \in Live, ub \in UB : CopyCtor(w, s, NoErr, ub)
    \/ \E w \in Slots, s \in Live, i \in OkInputs, ub \in UB, dse \in Stores :
           MoveCtor(w, s, i, ub, dse)
    \/ \E w \in Live, i \in OkInputs, ub \in UB : Destroy(w, i, ub)
    \/ Access

SpecOk == Init /\ [][NextOk]_vars

\* the two forms of the reference-count query
Query ==
    \/ \E w \in Live, g \in Garbage, ub \in UB : RefcountValue(w, g, ub)
    \/ \E w \in Live, cnt0 \in Garbage, ret \in Rets, ub \in UB :
           RefcountSlot(w, cnt0, ret, ub)

\* constructions and destructions whose library calls succeed, and the
\* reference-count queries
NextQuery == NextOk \/ Query

SpecQuery == Init /\ [][NextQuery]_vars

\* the matrix specialization: its two constructors, set_type, its destructor
NextMat ==
    \/ \E w \in Slots, h \in Addr, ret \in Rets, cok \in BOOLEAN :
           MatCtor(w, h, ret, cok, FALSE, NoErr, "kept")
    \/ \E w \in Slots, h \in Addr, ret \in Rets, cok \in BOOLEAN,
          sret \in {NoErr, MatSetTypeErr}, rd \in Readings :
           MatCtor(w, h, ret, cok, TRUE, sret, rd)
    \/ \E w \in W, sret \in {NoErr, MatSetTypeErr} : SetType(w, sret)
    \/ \E w \in W, dok \in BOOLEAN, i \in DtorInputs : MatDtor(w, dok, i)

SpecMat == Init /\ [][NextMat]_vars

TypeOK ==
    /\ m_ptr \in [W -> Addr \cup {NULL}]
    /\ m_ierr \in [W -> {NoErr, PETSC_ERR_MEM, PETSC_ERR_SIG, PETSC_ERR_POINTER,
                         PETSC_ERR_WRONGSTATE, LibErr, MatSetTypeErr}]
    /\ wstate \in [W -> {"unborn", "live", "mat", "dead"}]
    /\ ostate \in [Addr -> {"unused", "object", "raw", "freed"}]
    /\ refct \in [Addr -> Int]
    /\ crashed \in BOOLEAN

\* ----- the claims --------------------------------------------------------
IssuedOn(name, h) == \E k \in 1..Len(calls) : calls[k] = Call(name, h)
Issued(name) == \E k \in 1..Len(calls) : calls[k][1] = name

\* the most recent operation ran the destructor to its end on handle last.h,
\* a library object, with status OK
CleanDestroy ==
    /\ last.op = "destroy" /\ ~crashed
    /\ last.h # NULL /\ last.preOs = "object"
    /\ last.preErr = NoErr /\ ~last.flag /\ last.libOk

\* C1: of two live wrappers sharing one handle, the second a copy of the
\* first, the destruction of the first issues no deallocation and leaves the count >= 1 and the object in place;
\* the destruction of the last holder, which takes the count from one to
\* zero, issues the deallocation.
ConditionalFree ==
    /\ (CleanDestroy /\ Copies(last.h) # {}) =>
           /\ ~IssuedOn("PetscFree", last.h)
           /\ refct[last.h] >= 1
           /\ ostate[last.h] = "object"
    /\ (CleanDestroy /\ Holders(last.h) = {} /\ last.pre = 1) =>
           /\ refct[last.h] = 0
           /\ IssuedOn("PetscFree", last.h)

\* C2: when the last of the copies made of a handle has been destroyed, and
\* nothing but copy constructions and destructions of copies touched the
\* handle meanwhile, its count is what it was before the first copy was made.
RefcountBalance ==
    (last.op = "destroy" /\ ~crashed /\ Len(last.c0) = 1) =>
        refct[last.h] = last.c0[1]

\* C3: after b is move-constructed from a, which held a library object with
\* status OK, every library call succeeding, a has a null handle and status OK, and the destructor of a at
\* the end of its scope calls nothing.
MoveLeavesSourceInert ==
    /\ (last.op = "move" /\ ~crashed /\ last.preOs = "object"
            /\ last.preErr = NoErr /\ last.libOk) =>
           /\ m_ptr[last.src] = NULL
           /\ m_ierr[last.src] = NoErr
    /\ (last.op = "destroy" /\ last.moved /\ ~crashed) => calls = <<>>

\* C4: when the probe reports a pending message to a destructor running on a
\* non-null handle, the status becomes PETSC_ERR_SIG, the CHKERRQ fires, and
\* neither the decrement nor the deallocation is issued.
FatalBlocksTeardown ==
    (last.op \in {"destroy", "move"} /\ last.h # NULL /\ last.flag) =>
        /\ last.err = PETSC_ERR_SIG
        /\ last.fatal
        /\ ~Issued("PetscObjectDereference")
        /\ ~Issued("PetscFree")

FatalBlocksTeardownWitness ==
    /\ last.op = "destroy" /\ last.h # NULL /\ last.flag
    /\ last.preErr = NoErr /\ last.preOs = "object"
    /\ calls = <<Call("MPI_Iprobe", NULL)>>

\* C5: no live wrapper holds a handle to a block that has been deallocated.
NoFreedHandleHeld ==
    \A w \in Live : m_ptr[w] # NULL => ostate[m_ptr[w]] # "freed"

\* C6: every sharing construction adds exactly one to the count, every
\* destruction takes exactly one off it, and the count of a live object is
\* its baseline plus the number of live wrappers that hold it.
ExactlyOnceCounting ==
    /\ (last.op \in {"ref", "ptr", "copy"} /\ ~crashed /\ last.h # NULL
            /\ last.preOs = "object") =>
           refct[last.h] = last.pre + 1
    /\ CleanDestroy => refct[last.h] = last.pre - 1
    /\ \A h \in Addr : ostate[h] = "object" =>
           refct[h] = base[h] + Cardinality(Holders(h))

\* C7: operator-> and operator* on a null handle set the status to
\* PETSC_ERR_POINTER and return the null handle, the process going on; on a
\* non-null handle they return it and leave the status alone.
NullAccessObservable ==
    last.op \in {"arrow", "star"} =>
        IF last.h = NULL
        THEN ~crashed /\ m_ierr[last.w] = PETSC_ERR_POINTER /\ last.out = NULL
        ELSE last.out = last.h /\ m_ierr[last.w] = last.preErr

MoveChangesNoCount ==
    (last.op = "move" /\ ~crashed /\ last.h # NULL /\ last.preOs = "object"
        /\ last.preErr = NoErr /\ ~last.flag /\ last.libOk) =>
        /\ refct[last.h] = last.pre
        /\ m_ptr[last.w] = last.h
        /\ m_ierr[last.w] = last.preErr
        /\ ~Issued("PetscObjectDereference")
        /\ ~Issued("PetscObjectReference")
        /\ ~Issued("PetscFree")

\* C16: when a wrapper holding a library object is destroyed (status OK, no
\* pending message, every call succeeding) and the count after the decrement
\* is not zero, no deallocation is issued, the count ends as it started and
\* the object stays alive
SharedDestroyKeepsObject ==
    (CleanDestroy /\ last.pre - 1 # 0) =>
        /\ ~IssuedOn("PetscFree", last.h)
        /\ refct[last.h] = last.pre
        /\ ostate[last.h] = "object"

\* C17: a destructor that starts with a non-null handle and a status other
\* than OK, the probe reporting no message, takes the fatal path: the probe
\* is its only call, the count and the block are left as they were
CarriedStatusBlocksCleanup ==
    (last.op \in {"destroy", "move"} /\ ~crashed /\ last.h # NULL
        /\ last.preErr # NoErr /\ ~last.flag) =>
        /\ last.fatal
        /\ calls = <<Call("MPI_Iprobe", NULL)>>
        /\ ~Issued("PetscObjectDereference")
        /\ ~Issued("PetscFree")
        /\ refct[last.h] = last.pre
        /\ ostate[last.h] = last.preOs

CarriedStatusBlocksCleanupWitness ==
    /\ last.op = "destroy" /\ last.h # NULL /\ last.preErr = LibErr
    /\ ~last.flag /\ last.preOs = "object" /\ last.fatal
    /\ calls = <<Call("MPI_Iprobe", NULL)>>

NoDoubleFree ==
    (last.op \in {"destroy", "move"} /\ last.h # NULL /\ last.preOs = "freed") =>
        /\ ~IssuedOn("PetscObjectDereference", last.h)
        /\ ~IssuedOn("PetscFree", last.h)

\* C15: each form of the reference-count query, on a wrapper holding a
\* library object, reports the object's current count and leaves the count,
\* the handle and the status as they were
RefcountQueryIsPure ==
    (last.op \in {"refcount", "refcount_slot"} /\ ~crashed /\ last.h # NULL
        /\ last.preOs = "object" /\ last.libOk) =>
        /\ last.out = last.pre
        /\ refct[last.h] = last.pre
        /\ m_ptr[last.w] = last.h
        /\ m_ierr[last.w] = last.preErr

\* C12: the matrix constructor taking a matrix, a communicator and a type
\* name, every library call succeeding, leaves the wrapper with status OK and
\* holding a live matrix whose reference count is exactly 1
MatCtorYieldsFreshMatrix ==
    (last.op = "mat_typed" /\ last.libOk) =>
        /\ m_ierr[last.w] = NoErr
        /\ m_ptr[last.w] # NULL
        /\ m_ptr[last.w] = last.out
        /\ ostate[last.out] = "object"
        /\ refct[last.out] = 1

MatCtorYieldsFreshMatrixWitness ==
    /\ last.op = "mat_typed" /\ last.libOk /\ wstate[last.w] = "mat"
    /\ m_ptr[last.w] # NULL /\ m_ptr[last.w] # last.h
    /\ refct[m_ptr[last.w]] = 1 /\ m_ierr[last.w] = NoErr
    /\ calls = <<Call("PetscObjectReference", last.h),
                 Call("MatCreate", last.out), Call("MatSetType", last.out)>>

\* C13: destroying a matrix wrapper that holds a matrix (status OK, no
\* pending message, every call succeeding) first issues MatDestroy and then
\* the probe and the decrement of the base destructor, and leaves the handle
\* null
MatDestroyThenProtocol ==
    (last.op = "mat_destroy" /\ last.h # NULL /\ last.preErr = NoErr
        /\ ~last.flag /\ last.libOk) =>
        /\ calls[1] = Call("MatDestroy", last.h)
        /\ Issued("MPI_Iprobe")
        /\ Issued("PetscObjectDereference")
        /\ last.out = NULL

\* C14: a status other than OK that MatCreate or MatSetType reports during a
\* matrix construction or a set_type call is the status the wrapper's status
\* query returns afterwards
MatStatusPropagates ==
    (last.op \in {"mat", "mat_typed", "set_type"} /\ last.err # NoErr) =>
        request_ierr(last.w) = last.err

====
